---- MODULE Spec2Model ----
(***************************************************************************)
(* PTP-CAD: pretest probability of coronary artery disease.                *)
(*                                                                         *)
(* The repository holds three versions of the calculator script:           *)
(*   p1  src/unnamed/part_000 lines 1-262   (flags, CAC 0 / 1-99 buckets)  *)
(*   p2  src/unnamed/part_000 lines 264-474 (flags, CAC <=99 bucket)       *)
(*   js  src/script.js                      (no flags, CAC <=99 bucket)    *)
(* getAgeBand and PTP_TABLE are the same text in all three; the other      *)
(* functions are modelled once per version, with the version as suffix.    *)
(*                                                                         *)
(* JavaScript values are records tagged by the field t.  A finite number   *)
(* is kept as its floor fl and a flag fr that says a fractional part       *)
(* strictly between 0 and 1 follows; every comparison in the scripts is    *)
(* against an integer literal, and those are exact on this form.           *)
(* Strings typed into the form are sequences of one-character strings.     *)
(* Characters outside ASCII in the scripts' literals are written in ASCII: *)
(* "<=" for U+2264 and "-" for U+2013.                                     *)
(***************************************************************************)
EXTENDS Integers, Sequences, FiniteSets, TLC

VARIABLES
  call,     \* pure-call harness: the function applied and its arguments
  impl,     \* pure-call harness: the script version applied, "none" before
  ret,      \* pure-call harness: the value returned
  script,   \* page: the script version the page loaded
  els,      \* page: the form fields age, sex, symptom, cac (their .value)
  ptpObj,   \* page: ptpObj of the last onCalculate
  cacObj,   \* page: cacObj of the last onCalculate
  results,  \* page: what renderResults put into #results
  flagsEl,  \* page: what renderFlags put into #flags
  calcEls   \* page: the form values the last onCalculate read (history)

vars == <<call, impl, ret, script, els, ptpObj, cacObj, results, flagsEl, calcEls>>

-----------------------------------------------------------------------------
(* Bounds *)

\* radius of the integer neighbourhood taken around every threshold
Delta == 1

-----------------------------------------------------------------------------
(* JavaScript values *)

Fin(i, f) == [t |-> "num", fl |-> i, fr |-> f]
NaN == [t |-> "nan"]
PosInf == [t |-> "+inf"]
NegInf == [t |-> "-inf"]
Undefined == [t |-> "undefined"]
Null == [t |-> "null"]
Str(s) == [t |-> "str", s |-> s]

\* null where the scripts hold a string (the age band)
null == "null"

\* Number.isFinite(v): a number that is neither NaN nor an infinity
NumberIsFinite(v) == v.t = "num"

\* x < k, x <= k, x >= k, x > k, x === k for a number x and an integer literal k
Lt(x, k) ==
  CASE x.t = "num" -> x.fl < k
    [] x.t = "-inf" -> TRUE
    [] OTHER -> FALSE
Le(x, k) ==
  CASE x.t = "num" -> x.fl < k \/ (x.fl = k /\ ~x.fr)
    [] x.t = "-inf" -> TRUE
    [] OTHER -> FALSE
Ge(x, k) ==
  CASE x.t = "num" -> x.fl >= k
    [] x.t = "+inf" -> TRUE
    [] OTHER -> FALSE
Gt(x, k) ==
  CASE x.t = "num" -> x.fl > k \/ (x.fl = k /\ x.fr)
    [] x.t = "+inf" -> TRUE
    [] OTHER -> FALSE
StrictEq(x, k) == x.t = "num" /\ x.fl = k /\ ~x.fr

-----------------------------------------------------------------------------
(* Strings and the string <-> number conversions *)

Digits == <<"0", "1", "2", "3", "4", "5", "6", "7", "8", "9">>
IsDigit(c) == \E d \in 1..10 : Digits[d] = c
DigitValue(c) == (CHOOSE d \in 1..10 : Digits[d] = c) - 1

\* String(n) for an integer n >= 0, as template literals format it
RECURSIVE DecimalText(_)
DecimalText(n) ==
  IF n < 10 THEN <<Digits[n + 1]>>
  ELSE DecimalText(n \div 10) \o <<Digits[(n % 10) + 1]>>

RECURSIVE TrimLeft(_)
TrimLeft(s) == IF s # <<>> /\ Head(s) = " " THEN TrimLeft(Tail(s)) ELSE s
RECURSIVE TrimRight(_)
TrimRight(s) ==
  IF s # <<>> /\ s[Len(s)] = " " THEN TrimRight(SubSeq(s, 1, Len(s) - 1)) ELSE s

AllDigits(s) == \A i \in 1..Len(s) : IsDigit(s[i])
RECURSIVE DigitsValue(_)
DigitsValue(s) ==
  IF s = <<>> THEN 0
  ELSE 10 * DigitsValue(SubSeq(s, 1, Len(s) - 1)) + DigitValue(s[Len(s)])

\* position of the first "." in s, or 0
DotAt(s) ==
  IF \E i \in 1..Len(s) : s[i] = "."
  THEN CHOOSE i \in 1..Len(s) : s[i] = "." /\ \A j \in 1..(i - 1) : s[j] # "."
  ELSE 0

\* an unsigned decimal literal: digits, digits "." digits*, or "." digits
UnsignedDecimal(s) ==
  LET d == DotAt(s)
      ip == IF d = 0 THEN s ELSE SubSeq(s, 1, d - 1)
      fp == IF d = 0 THEN <<>> ELSE SubSeq(s, d + 1, Len(s))
  IN IF s = <<>> \/ ~AllDigits(ip) \/ ~AllDigits(fp) \/ (ip = <<>> /\ fp = <<>>)
     THEN NaN
     ELSE Fin(DigitsValue(ip), \E i \in 1..Len(fp) : fp[i] # "0")

Negate(x) ==
  CASE x.t = "num" -> IF x.fr THEN Fin(-x.fl - 1, TRUE) ELSE Fin(-x.fl, FALSE)
    [] x.t = "+inf" -> NegInf
    [] x.t = "-inf" -> PosInf
    [] OTHER -> x

InfinityText == <<"I", "n", "f", "i", "n", "i", "t", "y">>

\* Number(string): white space trimmed, "" is 0, an optional sign, then
\* Infinity or a decimal literal; anything else is NaN.  (Exponents and the
\* 0x/0o/0b forms are not modelled: no input of the model uses them.)
StringToNumber(s) ==
  LET tr == TrimRight(TrimLeft(s))
      signed == tr # <<>> /\ Head(tr) \in {"+", "-"}
      body == IF signed THEN Tail(tr) ELSE tr
      mag == IF body = InfinityText THEN PosInf ELSE UnsignedDecimal(body)
  IN IF tr = <<>> THEN Fin(0, FALSE)
     ELSE IF signed /\ Head(tr) = "-" THEN Negate(mag)
     ELSE mag

\* Number(v)
ToNumber(v) ==
  CASE v.t = "str" -> StringToNumber(v.s)
    [] v.t = "null" -> Fin(0, FALSE)
    [] v.t = "undefined" -> NaN
    [] OTHER -> v

-----------------------------------------------------------------------------
(* Pure logic shared by the three versions *)

getAgeBand_lt39(ageYears) ==
  IF ~NumberIsFinite(ageYears) THEN null
  ELSE IF Lt(ageYears, 30) THEN "lt30"
  ELSE IF Lt(ageYears, 39) THEN "30-39"
  ELSE IF Le(ageYears, 49) THEN "40-49"
  ELSE IF Le(ageYears, 59) THEN "50-59"
  ELSE IF Le(ageYears, 69) THEN "60-69"
  ELSE "70+"

getAgeBand(ageYears) ==
  IF ~NumberIsFinite(ageYears) THEN null
  ELSE IF Lt(ageYears, 30) THEN "lt30"
  ELSE IF Le(ageYears, 39) THEN "30-39"
  ELSE IF Le(ageYears, 49) THEN "40-49"
  ELSE IF Le(ageYears, 59) THEN "50-59"
  ELSE IF Le(ageYears, 69) THEN "60-69"
  ELSE "70+"

PTP_TABLE ==
  [chestPain |->
     [men   |-> ("30-39" :> 4 @@ "40-49" :> 22 @@ "50-59" :> 32 @@ "60-69" :> 44 @@ "70+" :> 52),
      women |-> ("30-39" :> 5 @@ "40-49" :> 10 @@ "50-59" :> 13 @@ "60-69" :> 16 @@ "70+" :> 27)],
   dyspnea |->
     [men   |-> ("30-39" :> 0 @@ "40-49" :> 12 @@ "50-59" :> 20 @@ "60-69" :> 27 @@ "70+" :> 32),
      women |-> ("30-39" :> 3 @@ "40-49" :> 3 @@ "50-59" :> 9 @@ "60-69" :> 14 @@ "70+" :> 12)]]

\* PTP_TABLE?.[symptom]?.[sex]?.[ageBand]: undefined as soon as a key is missing.
\* A key that every object inherits ("constructor", "toString") finds a
\* built-in instead of a table row, and no built-in has an age band as a
\* property, so the chain ends in undefined for those keys as well.
TableLookup(symptom, sex, ageBand) ==
  IF symptom \in DOMAIN PTP_TABLE
     /\ sex \in DOMAIN PTP_TABLE[symptom]
     /\ ageBand \in DOMAIN PTP_TABLE[symptom][sex]
  THEN Fin(PTP_TABLE[symptom][sex][ageBand], FALSE)
  ELSE Undefined

\* ptp <= 15 ? "low" : "intermediateHigh"
categoryFor_inverted(ptp) == IF Gt(ptp, 15) THEN "low" ELSE "intermediateHigh"
categoryFor(ptp) == IF Le(ptp, 15) THEN "low" ELSE "intermediateHigh"

\* the template literal that formats the percent for display
ptpDisplayFor(ptp) == <<"<=">> \o DecimalText(ptp.fl) \o <<"%">>

Flag(level, msg) == [level |-> level, msg |-> msg]

\* flags.some(f => f.level === "bad")
someBad_anyFlag(flags) == Len(flags) > 0
someBad(flags) == \E i \in 1..Len(flags) : flags[i].level = "bad"

\* !sex || !["men", "women"].includes(sex)
sexInvalid(sex) == sex = "" \/ sex \notin {"men", "women"}
\* !symptom || !["chestPain", "dyspnea"].includes(symptom)
symptomInvalid(symptom) == symptom = "" \/ symptom \notin {"chestPain", "dyspnea"}

MsgAge == "Age is required and must be a number."
MsgSex == "Sex is required."
MsgSymptom == "Symptom selection is required."

-----------------------------------------------------------------------------
(* Version p1: src/unnamed/part_000 lines 1-262 *)

\* { ok: false, flags, ageBand }
failure_p1_okTrue(flags, ageBand) == [ok |-> TRUE, flags |-> flags, ageBand |-> ageBand]
failure_p1(flags, ageBand) == [ok |-> FALSE, flags |-> flags, ageBand |-> ageBand]

\* the flags pushed before the first decision
validate_p1(ageBand, sex, symptom) ==
  (IF ageBand = null THEN <<Flag("bad", MsgAge)>> ELSE <<>>)
  \o (IF ageBand = "lt30"
      THEN <<Flag("warn", "Age <30: the provided figure table begins at 30-39. Result may not be applicable.")>>
      ELSE <<>>)
  \o (IF sexInvalid(sex) THEN <<Flag("bad", MsgSex)>> ELSE <<>>)
  \o (IF symptomInvalid(symptom) THEN <<Flag("bad", MsgSymptom)>> ELSE <<>>)

calculatePretestProbability_p1(ageYears, sex, symptom) ==
  LET ageBand == getAgeBand(ageYears)
      flags == validate_p1(ageBand, sex, symptom)
      ptp == TableLookup(symptom, sex, ageBand)
  IN IF someBad(flags) THEN failure_p1(flags, ageBand)
     ELSE IF ageBand = "lt30"
     THEN failure_p1(Append(flags, Flag("bad", "No table value available for age <30 from the provided figure. Cannot compute.")), ageBand)
     ELSE IF ~NumberIsFinite(ptp)
     THEN failure_p1(Append(flags, Flag("bad", "No matching table value found (check inputs).")), ageBand)
     ELSE [ok |-> TRUE,
           ptpPercent |-> ptp.fl,
           ptpDisplay |-> ptpDisplayFor(ptp),
           category |-> categoryFor(ptp),
           ageBand |-> ageBand,
           flags |-> flags]

interpretCAC_p1(cacScore) ==
  IF cacScore = Null \/ cacScore = Undefined \/ cacScore = Str(<<>>) THEN Null
  ELSE LET n == ToNumber(cacScore)
       IN IF ~NumberIsFinite(n) \/ Lt(n, 0)
          THEN [ok |-> FALSE, level |-> "bad", label |-> "Invalid CAC",
                detail |-> "CAC must be a number >= 0."]
          ELSE IF StrictEq(n, 0)
          THEN [ok |-> TRUE, bucket |-> "0", ptpRange |-> "<=15%", level |-> "low",
                label |-> "CAC 0", detail |-> "Figure-style interpretation: CAC 0 -> <=15%."]
          ELSE IF Ge(n, 1) /\ Le(n, 99)
          THEN [ok |-> TRUE, bucket |-> "1-99", ptpRange |-> "<=15%", level |-> "low",
                label |-> "CAC 1-99", detail |-> "CAC 1-99 -> <=15% (low)."]
          ELSE IF Ge(n, 100) /\ Le(n, 999)
          THEN [ok |-> TRUE, bucket |-> "100-999", ptpRange |-> ">15-50%", level |-> "high",
                label |-> "CAC 100-999", detail |-> "CAC 100-999 -> >15-50%."]
          ELSE [ok |-> TRUE, bucket |-> ">=1000", ptpRange |-> ">50%", level |-> "veryhigh",
                label |-> "CAC >=1000", detail |-> "CAC >=1000 -> >50%."]

-----------------------------------------------------------------------------
(* Version p2: src/unnamed/part_000 lines 264-474 *)

failure_p2(flags) == [ok |-> FALSE, flags |-> flags]

validate_p2(ageBand, sex, symptom) ==
  (IF ageBand = null THEN <<Flag("bad", MsgAge)>> ELSE <<>>)
  \o (IF ageBand = "lt30"
      THEN <<Flag("warn", "Age <30: figure table begins at 30-39; not applicable.")>>
      ELSE <<>>)
  \o (IF sexInvalid(sex) THEN <<Flag("bad", MsgSex)>> ELSE <<>>)
  \o (IF symptomInvalid(symptom) THEN <<Flag("bad", MsgSymptom)>> ELSE <<>>)

calculatePretestProbability_p2(ageYears, sex, symptom) ==
  LET ageBand == getAgeBand(ageYears)
      flags == validate_p2(ageBand, sex, symptom)
      ptp == TableLookup(symptom, sex, ageBand)
  IN IF someBad(flags) THEN failure_p2(flags)
     ELSE IF ageBand = "lt30"
     THEN failure_p2(Append(flags, Flag("bad", "No table value for age <30 from the provided figure.")))
     ELSE IF ~NumberIsFinite(ptp)
     THEN failure_p2(Append(flags, Flag("bad", "No matching table value found.")))
     ELSE [ok |-> TRUE,
           ptpDisplay |-> ptpDisplayFor(ptp),
           category |-> categoryFor(ptp),
           flags |-> flags]

interpretCAC_p2(cacScore) ==
  LET n == ToNumber(cacScore)
  IN IF ~NumberIsFinite(n) \/ Lt(n, 0)
     THEN [ok |-> FALSE, msg |-> "CAC must be a number >= 0."]
     ELSE IF Le(n, 99) THEN [ok |-> TRUE, range |-> "<=15%", category |-> "low"]
     ELSE IF Le(n, 999) THEN [ok |-> TRUE, range |-> ">15-50%", category |-> "intermediateHigh"]
     ELSE [ok |-> TRUE, range |-> ">50%", category |-> "high"]

-----------------------------------------------------------------------------
(* Version js: src/script.js *)

\* the variant that tests the table value with !ptp
calculatePretestProbability_js_falsy(ageYears, sex, symptom) ==
  LET ageBand == getAgeBand(ageYears)
      ptp == TableLookup(symptom, sex, ageBand)
  IN IF ageBand = null \/ sex = "" \/ symptom = ""
     THEN [ok |-> FALSE, flags |-> <<>>]
     ELSE IF ~NumberIsFinite(ptp) \/ StrictEq(ptp, 0) THEN [ok |-> FALSE, flags |-> <<>>]
     ELSE [ok |-> TRUE,
           ptpDisplay |-> ptpDisplayFor(ptp),
           category |-> categoryFor(ptp),
           flags |-> <<>>]

calculatePretestProbability_js(ageYears, sex, symptom) ==
  LET ageBand == getAgeBand(ageYears)
      ptp == TableLookup(symptom, sex, ageBand)
  IN IF ageBand = null \/ sex = "" \/ symptom = ""
     THEN [ok |-> FALSE, flags |-> <<>>]
     ELSE IF ~NumberIsFinite(ptp) THEN [ok |-> FALSE, flags |-> <<>>]
     ELSE [ok |-> TRUE,
           ptpDisplay |-> ptpDisplayFor(ptp),
           category |-> categoryFor(ptp),
           flags |-> <<>>]

interpretCAC_js(cacScore) ==
  LET n == ToNumber(cacScore)
  IN IF ~NumberIsFinite(n) \/ Lt(n, 0) THEN Null
     ELSE IF Le(n, 99) THEN [range |-> "<=15%", category |-> "low"]
     ELSE IF Le(n, 999) THEN [range |-> ">15-50%", category |-> "intermediateHigh"]
     ELSE [range |-> ">50%", category |-> "high"]

-----------------------------------------------------------------------------
(* The page: rendering and the two button handlers.  #results and #flags    *)
(* are kept as the list of blocks shown and their text, not as markup.      *)

EmptyBlock(text) == <<[block |-> "empty", text |-> text]>>
TextFixInputs == "Fix the flagged inputs to calculate."
TextEnterInputs == "Enter inputs and tap Calculate."

\* badgeForCategory / pillFor / pill
badgeForCategory(category) ==
  IF category = "low" THEN "Low <=15%" ELSE "Intermediate-High >15%"
pillFor(category) ==
  IF category = "low" THEN "Low <=15%"
  ELSE IF category = "high" THEN "High >50%"
  ELSE "Intermediate-High >15%"
\* badgeForCACLevel ignores its argument
badgeForCACLevel(level) == "Low <=15%, Intermediate-High >15%, and High >50%"

flagClass(f) ==
  IF f.level = "bad" THEN "flag-bad"
  ELSE IF f.level = "warn" THEN "flag-warn"
  ELSE "flag-good"

renderFlags(flags) ==
  IF Len(flags) = 0 THEN <<[cls |-> "muted", text |-> "No flags."]>>
  ELSE [i \in 1..Len(flags) |-> [cls |-> flagClass(flags[i]), text |-> flags[i].msg]]

renderResults_p1(ptp, cac) ==
  IF ~ptp.ok THEN EmptyBlock(TextFixInputs)
  ELSE <<[block |-> "ptp", display |-> ptp.ptpDisplay, badge |-> badgeForCategory(ptp.category)]>>
       \o (IF cac = Null THEN <<>>
           ELSE IF ~cac.ok
           THEN <<[block |-> "cac", value |-> cac.label, badge |-> "Check CAC", note |-> cac.detail]>>
           ELSE <<[block |-> "cac", value |-> cac.ptpRange, badge |-> badgeForCACLevel(cac.level),
                   note |-> <<cac.label, cac.detail>>]>>)

renderResults_p2(ptp, cac) ==
  IF ~ptp.ok THEN EmptyBlock(TextFixInputs)
  ELSE <<[block |-> "ptp", display |-> ptp.ptpDisplay, badge |-> pillFor(ptp.category)]>>
       \o (IF cac = Null THEN <<>>
           ELSE IF ~cac.ok
           THEN <<[block |-> "cac", value |-> "-", badge |-> "Check CAC"]>>
           ELSE <<[block |-> "cac", value |-> cac.range, badge |-> pillFor(cac.category)]>>)

renderResults_js(ptp, cac) ==
  LET html == (IF ptp.ok
               THEN <<[block |-> "ptp", display |-> ptp.ptpDisplay, badge |-> pillFor(ptp.category)]>>
               ELSE <<>>)
              \o (IF cac # Null
                  THEN <<[block |-> "cac", value |-> cac.range, badge |-> pillFor(cac.category)]>>
                  ELSE <<>>)
  IN IF html = <<>> THEN EmptyBlock(TextEnterInputs) ELSE html

\* const mergedFlags = [...(ptpObj.flags || [])] and the pushes that follow
mergedFlags_p1(ptp, ageYears, cac) ==
  ptp.flags
  \o (IF ptp.ok /\ Gt(ageYears, 100) THEN <<Flag("warn", "Age >100: verify input.")>> ELSE <<>>)
  \o (IF ptp.ok /\ Lt(ageYears, 30)
      THEN <<Flag("warn", "Age <30: outside figure range; computation not provided.")>>
      ELSE <<>>)
  \o (IF cac # Null /\ ~cac.ok THEN <<Flag("bad", "CAC input invalid (must be >=0).")>> ELSE <<>>)

\* ptpObj once the handler has pushed onto mergedFlags: the spread made a
\* copy, so ptpObj.flags is the list calculatePretestProbability returned
ptpAfterMerge_aliased(ptp, merged) == [ptp EXCEPT !.flags = merged]
ptpAfterMerge_p1(ptp, merged) == ptp

\* what one run of onCalculate leaves behind, for the form values e
onCalculate_p1(e) ==
  LET ageYears == ToNumber(Str(e.age))
      ptp == calculatePretestProbability_p1(ageYears, e.sex, e.symptom)
      cac == IF e.cac # <<>> THEN interpretCAC_p1(Str(e.cac)) ELSE Null
      merged == mergedFlags_p1(ptp, ageYears, cac)
      ptpEnd == ptpAfterMerge_p1(ptp, merged)
  IN [ptpObj |-> ptpEnd, cacObj |-> cac,
      results |-> renderResults_p1(ptpEnd, cac), flagsEl |-> renderFlags(merged)]

onCalculate_p2(e) ==
  LET ageYears == ToNumber(Str(e.age))
      ptp == calculatePretestProbability_p2(ageYears, e.sex, e.symptom)
      cac == IF e.cac # <<>> THEN interpretCAC_p2(Str(e.cac)) ELSE Null
  IN [ptpObj |-> ptp, cacObj |-> cac,
      results |-> renderResults_p2(ptp, cac), flagsEl |-> renderFlags(ptp.flags)]

\* script.js has no #flags list: flagsEl keeps what it held (old)
onCalculate_js(e, old) ==
  LET ptp == calculatePretestProbability_js(ToNumber(Str(e.age)), e.sex, e.symptom)
      cac == IF e.cac # <<>> THEN interpretCAC_js(Str(e.cac)) ELSE Null
  IN [ptpObj |-> ptp, cacObj |-> cac,
      results |-> renderResults_js(ptp, cac), flagsEl |-> old]

onCalculate(s, e, old) ==
  CASE s = "p1" -> onCalculate_p1(e)
    [] s = "p2" -> onCalculate_p2(e)
    [] s = "js" -> onCalculate_js(e, old)

\* #flags after onReset
resetFlags(s, old) ==
  CASE s = "p1" -> <<[cls |-> "muted", text |-> "No flags yet."]>>
    [] s = "p2" -> renderFlags(<<>>)
    [] s = "js" -> old

-----------------------------------------------------------------------------
(* Inputs *)

Near(cuts) == UNION {(c - Delta)..(c + Delta) : c \in cuts}

\* the text of an integer, and of an integer followed by a fraction
IntText(i) == IF i < 0 THEN <<"-">> \o DecimalText(-i) ELSE DecimalText(i)
NumberText(i, f) == IntText(i) \o (IF f THEN <<".", "5">> ELSE <<>>)

Versions == {"p1", "p2", "js"}

\* ages around every threshold the scripts compare an age with, and the
\* ages of the documented scenarios
AgeInts == Near({0, 30, 40, 50, 60, 70, 100}) \cup {25, 35, 45}
AgeValues == {Fin(i, f) : i \in AgeInts, f \in BOOLEAN} \cup {NaN, PosInf, NegInf, Undefined}
SexValues == {"", "men", "women", "other"}
SymptomValues == {"", "chestPain", "dyspnea", "other"}

\* CAC scores around every threshold the scripts compare a score with
CacInts == Near({0, 100, 1000})
GarbageTexts == {<<>>, <<" ">>, <<"a", "b", "c">>, InfinityText}
CacValues ==
  {Str(NumberText(i, f)) : i \in CacInts, f \in BOOLEAN}
  \cup {Str(t) : t \in GarbageTexts}
  \cup {Fin(i, f) : i \in CacInts, f \in BOOLEAN}
  \cup {Null, Undefined, NaN, PosInf}

\* what the user can put into the form
FormAgeTexts == {IntText(i) : i \in Near({30, 100}) \cup {45}} \cup {<<>>, <<"a", "b", "c">>}
FormCacTexts ==
  {IntText(i) : i \in Near({0, 100})} \cup {<<"9", "9", ".", "5">>, <<>>, <<"a", "b", "c">>}

NoCall == [t |-> "none"]
BlankForm == [age |-> <<>>, sex |-> "", symptom |-> "", cac |-> <<>>]

-----------------------------------------------------------------------------
(* Specification of the pure functions: the arguments are drawn first,      *)
(* then one version of the function is applied to them.                     *)

\* strings outside the enums that name a property every object inherits
InheritedKeys == {"constructor", "toString"}

PtpCalls ==
  {[fn |-> "calculatePretestProbability", ageYears |-> a, sex |-> s, symptom |-> y] :
     a \in AgeValues, s \in SexValues \cup InheritedKeys,
     y \in SymptomValues \cup InheritedKeys}
CacCalls == {[fn |-> "interpretCAC", cacScore |-> c] : c \in CacValues}
BandCalls == {[fn |-> "getAgeBand", ageYears |-> a] : a \in AgeValues}

PageIdle ==
  /\ script = "none"
  /\ els = BlankForm
  /\ ptpObj = NoCall
  /\ cacObj = NoCall
  /\ results = <<>>
  /\ flagsEl = <<>>
  /\ calcEls = NoCall

Init ==
  /\ call \in PtpCalls \cup CacCalls \cup BandCalls
  /\ impl = "none"
  /\ ret = NoCall
  /\ PageIdle

PageVars == <<script, els, ptpObj, cacObj, results, flagsEl, calcEls>>

CallGetAgeBand ==
  /\ impl = "none" /\ call.fn = "getAgeBand"
  /\ impl' = "all"
  /\ ret' = getAgeBand(call.ageYears)
  /\ UNCHANGED <<call, PageVars>>

CallCalculate_p1 ==
  /\ impl = "none" /\ call.fn = "calculatePretestProbability"
  /\ impl' = "p1"
  /\ ret' = calculatePretestProbability_p1(call.ageYears, call.sex, call.symptom)
  /\ UNCHANGED <<call, PageVars>>

CallCalculate_p2 ==
  /\ impl = "none" /\ call.fn = "calculatePretestProbability"
  /\ impl' = "p2"
  /\ ret' = calculatePretestProbability_p2(call.ageYears, call.sex, call.symptom)
  /\ UNCHANGED <<call, PageVars>>

CallCalculate_js ==
  /\ impl = "none" /\ call.fn = "calculatePretestProbability"
  /\ impl' = "js"
  /\ ret' = calculatePretestProbability_js(call.ageYears, call.sex, call.symptom)
  /\ UNCHANGED <<call, PageVars>>

CallInterpretCAC_p1 ==
  /\ impl = "none" /\ call.fn = "interpretCAC"
  /\ impl' = "p1"
  /\ ret' = interpretCAC_p1(call.cacScore)
  /\ UNCHANGED <<call, PageVars>>

CallInterpretCAC_p2 ==
  /\ impl = "none" /\ call.fn = "interpretCAC"
  /\ impl' = "p2"
  /\ ret' = interpretCAC_p2(call.cacScore)
  /\ UNCHANGED <<call, PageVars>>

CallInterpretCAC_js ==
  /\ impl = "none" /\ call.fn = "interpretCAC"
  /\ impl' = "js"
  /\ ret' = interpretCAC_js(call.cacScore)
  /\ UNCHANGED <<call, PageVars>>

Next ==
  \/ CallGetAgeBand
  \/ CallCalculate_p1
  \/ CallCalculate_p2
  \/ CallCalculate_js
  \/ CallInterpretCAC_p1
  \/ CallInterpretCAC_p2
  \/ CallInterpretCAC_js

Spec == Init /\ [][Next]_vars

-----------------------------------------------------------------------------
(* Specification of the page: one script version is loaded; the user        *)
(* changes a field and presses Calculate, or presses Reset.                 *)

InitPage ==
  /\ call = NoCall
  /\ impl = "none"
  /\ ret = NoCall
  /\ script \in Versions
  /\ els = BlankForm
  /\ ptpObj = NoCall
  /\ cacObj = NoCall
  /\ results = <<>>
  /\ flagsEl = <<>>
  /\ calcEls = NoCall

Calculate(e) ==
  \E out \in {onCalculate(script, e, flagsEl)} :
     /\ els' = e
     /\ calcEls' = e
     /\ ptpObj' = out.ptpObj
     /\ cacObj' = out.cacObj
     /\ results' = out.results
     /\ flagsEl' = out.flagsEl
     /\ UNCHANGED <<call, impl, ret, script>>

CalculateWithAge == \E v \in FormAgeTexts : Calculate([els EXCEPT !.age = v])
CalculateWithSex == \E v \in SexValues : Calculate([els EXCEPT !.sex = v])
CalculateWithSymptom == \E v \in SymptomValues : Calculate([els EXCEPT !.symptom = v])
CalculateWithCac == \E v \in FormCacTexts : Calculate([els EXCEPT !.cac = v])

\* onReset: the fields and both lists are cleared; ptpObj and cacObj, the
\* values the last onCalculate worked with, are history and stay
OnReset ==
  /\ els' = BlankForm
  /\ results' = EmptyBlock(TextEnterInputs)
  /\ flagsEl' = resetFlags(script, flagsEl)
  /\ UNCHANGED <<call, impl, ret, script, ptpObj, cacObj, calcEls>>

NextPage ==
  \/ CalculateWithAge
  \/ CalculateWithSex
  \/ CalculateWithSymptom
  \/ CalculateWithCac
  \/ OnReset

SpecPage == InitPage /\ [][NextPage]_vars

-----------------------------------------------------------------------------
(* Vocabulary of the properties *)

CalcDone == call.fn = "calculatePretestProbability" /\ impl # "none"
CacDone == call.fn = "interpretCAC" /\ impl # "none"
BandDone == call.fn = "getAgeBand" /\ impl # "none"

ValidSex == {"men", "women"}
ValidSymptom == {"chestPain", "dyspnea"}
Bands == {"30-39", "40-49", "50-59", "60-69", "70+"}

\* an age that is a finite number, and one that is a whole number
FiniteAge(a) == a.t = "num"
WholeAge(a) == a.t = "num" /\ ~a.fr

HasField(r, f) == f \in DOMAIN r

-----------------------------------------------------------------------------
\* C1: a result of calculatePretestProbability with ok = true carries no
\* flag of level bad, in any of the three versions.
C1_SuccessHasNoBadFlag ==
  (CalcDone /\ ret.ok) => \A i \in 1..Len(ret.flags) : ret.flags[i].level # "bad"

C1_Witness == CalcDone /\ impl = "p1" /\ ret.ok /\ call.sex = "women"

-----------------------------------------------------------------------------
\* C2: for a valid symptom, a valid sex and an age of 30 or more the call
\* succeeds, the percent is PTP_TABLE[symptom][sex][getAgeBand(age)] (p1 is
\* the version that returns the percent; p2 and js return it formatted),
\* and the category is low exactly when the percent is <= 15; age 45, men,
\* chestPain gives 22 and intermediateHigh; age 35, women, dyspnea gives 3
\* and low.
C2_Valid ==
  /\ CalcDone
  /\ FiniteAge(call.ageYears) /\ call.ageYears.fl >= 30
  /\ call.sex \in ValidSex /\ call.symptom \in ValidSymptom

C2_TableValue == PTP_TABLE[call.symptom][call.sex][getAgeBand(call.ageYears)]

C2_TableLookupAndCategory ==
  /\ C2_Valid =>
       /\ ret.ok
       /\ ret.category = (IF C2_TableValue <= 15 THEN "low" ELSE "intermediateHigh")
       /\ impl = "p1" => ret.ptpPercent = C2_TableValue
       /\ ret.ptpDisplay = <<"<=">> \o DecimalText(C2_TableValue) \o <<"%">>
  /\ (C2_Valid /\ call.ageYears = Fin(45, FALSE) /\ call.sex = "men" /\ call.symptom = "chestPain") =>
       /\ ret.category = "intermediateHigh"
       /\ ret.ptpDisplay = <<"<=", "2", "2", "%">>
       /\ impl = "p1" => ret.ptpPercent = 22
  /\ (C2_Valid /\ call.ageYears = Fin(35, FALSE) /\ call.sex = "women" /\ call.symptom = "dyspnea") =>
       /\ ret.category = "low"
       /\ ret.ptpDisplay = <<"<=", "3", "%">>
       /\ impl = "p1" => ret.ptpPercent = 3

C2_Witness ==
  /\ C2_Valid /\ impl = "p1"
  /\ call.ageYears = Fin(45, FALSE) /\ call.sex = "men" /\ call.symptom = "chestPain"
  /\ ret.ok /\ ret.ptpPercent = 22

-----------------------------------------------------------------------------
\* C3: getAgeBand gives every finite age exactly one band: lt30 below 30,
\* 30-39 for 30..39, 40-49 for 40..49, 50-59 for 50..59, 60-69 for 60..69,
\* 70+ from 70; from 30 upward the result is always one of the five table
\* bands (no gap), fractional ages included; a non-finite age gives null.
C3_BandOfWhole(n) ==
  IF n < 30 THEN "lt30"
  ELSE IF n <= 39 THEN "30-39"
  ELSE IF n <= 49 THEN "40-49"
  ELSE IF n <= 59 THEN "50-59"
  ELSE IF n <= 69 THEN "60-69"
  ELSE "70+"

-----------------------------------------------------------------------------
\* C4: calculatePretestProbability does not stop at the first invalid
\* field: the flags returned contain one bad flag for each invalid field
\* (non-finite age, sex outside men/women, symptom outside
\* chestPain/dyspnea), in the order age, sex, symptom, and the call fails
\* when a field is invalid.
C4_IsFieldFlag(f) == f.level = "bad" /\ f.msg \in {MsgAge, MsgSex, MsgSymptom}

C4_FieldFlags(flags) ==
  LET picked == SelectSeq(flags, C4_IsFieldFlag)
  IN [i \in 1..Len(picked) |-> picked[i].msg]

C4_Expected ==
  (IF ~FiniteAge(call.ageYears) THEN <<MsgAge>> ELSE <<>>)
  \o (IF call.sex \notin ValidSex THEN <<MsgSex>> ELSE <<>>)
  \o (IF call.symptom \notin ValidSymptom THEN <<MsgSymptom>> ELSE <<>>)

C4_AllInvalidFieldsFlagged ==
  CalcDone =>
    /\ C4_FieldFlags(ret.flags) = C4_Expected
    /\ C4_Expected # <<>> => ~ret.ok

\* the same statement for the two versions that keep flags
C4_HoldsInFlaggingVersions == impl \in {"p1", "p2"} => C4_AllInvalidFieldsFlagged

-----------------------------------------------------------------------------
\* C5: in p1 and p2, for a finite age below 30 with a valid sex and a valid
\* symptom the call fails with exactly two flags, the warn flag that the
\* table begins at 30 and then the bad flag that no table value exists
\* below 30, and the result holds no percent.
C5_Case ==
  /\ CalcDone /\ impl \in {"p1", "p2"}
  /\ FiniteAge(call.ageYears) /\ call.ageYears.fl < 30
  /\ call.sex \in ValidSex /\ call.symptom \in ValidSymptom

C5_WarnMsgs ==
  {"Age <30: the provided figure table begins at 30-39. Result may not be applicable.",
   "Age <30: figure table begins at 30-39; not applicable."}
C5_BadMsgs ==
  {"No table value available for age <30 from the provided figure. Cannot compute.",
   "No table value for age <30 from the provided figure."}

C5_Below30WarnThenBad ==
  C5_Case =>
    /\ ~ret.ok
    /\ Len(ret.flags) = 2
    /\ ret.flags[1].level = "warn" /\ ret.flags[1].msg \in C5_WarnMsgs
    /\ ret.flags[2].level = "bad" /\ ret.flags[2].msg \in C5_BadMsgs
    /\ ~HasField(ret, "ptpPercent") /\ ~HasField(ret, "ptpDisplay")

C5_Witness ==
  /\ C5_Case /\ impl = "p1"
  /\ call.ageYears = Fin(25, FALSE) /\ call.sex = "men" /\ call.symptom = "chestPain"
  /\ ~ret.ok /\ Len(ret.flags) = 2

-----------------------------------------------------------------------------
(* CAC results as the claims read them: p1 names the classification level   *)
(* and the range ptpRange; p2 and js name them category and range.          *)

CacCategory(r) ==
  IF HasField(r, "category") THEN r.category
  ELSE IF HasField(r, "level") THEN r.level
  ELSE "none"
CacRange(r) ==
  IF HasField(r, "range") THEN r.range
  ELSE IF HasField(r, "ptpRange") THEN r.ptpRange
  ELSE "none"

\* a result that is a classification: not null and not a failure
CacSuccess(r) == r # Null /\ (HasField(r, "ok") => r.ok) /\ CacRange(r) # "none"
\* a failure result: an object with ok = false
CacFailure(r) == r # Null /\ HasField(r, "ok") /\ ~r.ok

\* the number the score converts to
CacNumber == ToNumber(call.cacScore)
\* the score is given: not null, undefined or the empty string
CacGiven == call.cacScore \notin {Null, Undefined, Str(<<>>)}

-----------------------------------------------------------------------------
\* C6: for every integer CAC score n >= 0, interpretCAC (p1 and p2) returns
\* a success with category low and range "<=15%" for 0..99, category
\* intermediateHigh and range ">15-50%" for 100..999, category high and
\* range ">50%" from 1000.
C6_IntegerScoreBuckets ==
  (CacDone /\ impl \in {"p1", "p2"} /\ CacGiven
   /\ CacNumber.t = "num" /\ ~CacNumber.fr /\ CacNumber.fl >= 0) =>
    /\ CacSuccess(ret)
    /\ CacNumber.fl <= 99 => (CacCategory(ret) = "low" /\ CacRange(ret) = "<=15%")
    /\ (CacNumber.fl >= 100 /\ CacNumber.fl <= 999) =>
         (CacCategory(ret) = "intermediateHigh" /\ CacRange(ret) = ">15-50%")
    /\ CacNumber.fl >= 1000 => (CacCategory(ret) = "high" /\ CacRange(ret) = ">50%")

\* the same statement for p2 alone, and the ranges alone for p1
C6_HoldsInP2 == impl = "p2" => C6_IntegerScoreBuckets
C6_RangesHoldInP1 ==
  (CacDone /\ impl = "p1" /\ CacGiven
   /\ CacNumber.t = "num" /\ ~CacNumber.fr /\ CacNumber.fl >= 0) =>
    /\ CacSuccess(ret)
    /\ CacRange(ret) = (IF CacNumber.fl <= 99 THEN "<=15%"
                        ELSE IF CacNumber.fl <= 999 THEN ">15-50%" ELSE ">50%")

-----------------------------------------------------------------------------
\* C7: interpretCAC returns null for the empty string, null and undefined,
\* and a failure result (not null, not a success) when the input converts
\* to a non-finite or a negative number.
C7_NullAndFailure ==
  CacDone =>
    /\ ~CacGiven => ret = Null
    /\ (CacGiven /\ (CacNumber.t # "num" \/ CacNumber.fl < 0)) => CacFailure(ret)

\* the same statement for p1 alone
C7_HoldsInP1 == impl = "p1" => C7_NullAndFailure

-----------------------------------------------------------------------------
\* C8: the CAC buckets are contiguous and do not overlap over all scores
\* >= 0, fractional ones included: every score >= 0 is classified, the
\* classification never decreases as the score grows, and no score below
\* 1000 is put in the >= 1000 bucket.
C8_Rank(r) ==
  CASE CacRange(r) = "<=15%" -> 1
    [] CacRange(r) = ">15-50%" -> 2
    [] CacRange(r) = ">50%" -> 3
    [] OTHER -> 0

C8_Classify(v, c) ==
  CASE v = "p1" -> interpretCAC_p1(c)
    [] v = "p2" -> interpretCAC_p2(c)
    [] v = "js" -> interpretCAC_js(c)

\* a is certainly no larger than b
C8_NoLarger(a, b) == a.fl < b.fl \/ (a.fl = b.fl /\ ~a.fr)

C8_Score(c) == c \notin {Null, Undefined, Str(<<>>)} /\ ToNumber(c).t = "num" /\ ToNumber(c).fl >= 0

C8_BucketsMonotone ==
  (CacDone /\ C8_Score(call.cacScore)) =>
    /\ CacSuccess(ret) /\ C8_Rank(ret) \in 1..3
    /\ CacNumber.fl < 1000 => C8_Rank(ret) < 3
    /\ \A c \in CacValues :
         (C8_Score(c) /\ C8_NoLarger(CacNumber, ToNumber(c))) =>
           C8_Rank(ret) <= C8_Rank(C8_Classify(impl, c))

-----------------------------------------------------------------------------
\* C9: when calculatePretestProbability fails and the age was a finite
\* number, the failure result reports the computed age band (lt30
\* included).
C9_FailureReportsBand ==
  (CalcDone /\ ~ret.ok /\ FiniteAge(call.ageYears)) =>
    /\ HasField(ret, "ageBand")
    /\ ret.ageBand = getAgeBand(call.ageYears)

\* the same statement for p1 alone
C9_HoldsInP1 == impl = "p1" => C9_FailureReportsBand

-----------------------------------------------------------------------------
\* C10: an invalid CAC input stays in the CAC result: from one run of
\* onCalculate to the next, when age, sex and symptom are the same, ptpObj
\* (ok, percent, category, flags) is the same whatever the CAC field held.
C10_SameTriple ==
  /\ calcEls # NoCall /\ calcEls' # NoCall
  /\ calcEls'.age = calcEls.age
  /\ calcEls'.sex = calcEls.sex
  /\ calcEls'.symptom = calcEls.symptom

C10_CacDoesNotTouchPtp == [][C10_SameTriple => ptpObj' = ptpObj]_vars

\* a run with a valid triple and a CAC field that is not a number
C10_Witness ==
  /\ calcEls # NoCall /\ script = "p1"
  /\ calcEls.cac = <<"a", "b", "c">>
  /\ ptpObj.ok
  /\ cacObj # Null /\ ~cacObj.ok
  /\ \E i \in 1..Len(flagsEl) : flagsEl[i].cls = "flag-bad"

-----------------------------------------------------------------------------
\* C11: the three versions of calculatePretestProbability agree on the
\* outcome: for every age (a number or undefined) and every sex and symptom
\* string, the strings outside the enums included, they return the same ok
\* and, when ok is true, the same ptpDisplay and the same category.
C11_Calculate(v, a, s, y) ==
  CASE v = "p1" -> calculatePretestProbability_p1(a, s, y)
    [] v = "p2" -> calculatePretestProbability_p2(a, s, y)
    [] v = "js" -> calculatePretestProbability_js(a, s, y)

C11_Outcome(r) == IF r.ok THEN <<TRUE, r.ptpDisplay, r.category>> ELSE <<FALSE>>

C11_VersionsAgree ==
  CalcDone =>
    \A v \in Versions :
      C11_Outcome(C11_Calculate(v, call.ageYears, call.sex, call.symptom)) = C11_Outcome(ret)

\* a call with a sex outside the enum and the other two arguments valid
C11_Witness ==
  /\ CalcDone /\ impl = "js"
  /\ FiniteAge(call.ageYears) /\ call.ageYears.fl >= 30
  /\ call.sex \in {"other", "constructor"} /\ call.symptom \in ValidSymptom
  /\ ~ret.ok

====
